---- MODULE Spec2Model ----
(***************************************************************************)
(* mapbox::util::variant<Types...> (src/variant.hpp) as a state machine.   *)
(*                                                                         *)
(* The program is a set of named variant variables.  Each one that is in   *)
(* scope has a discriminant type_index and a raw storage data.  The raw    *)
(* storage is modelled by the object whose bytes it holds: its type, its   *)
(* value, whether its lifetime is running, the address it was constructed  *)
(* at, and the heap allocation it owns.  One action is one complete call   *)
(* of a member function; the program is single threaded (spec section 5).  *)
(***************************************************************************)
EXTENDS Integers, Sequences, FiniteSets, TLC

(* ---- bounds of the model ---- *)
NumVars == 2        \* variant variables of the program
MaxVal  == 1        \* payload values are 0..MaxVal
MaxRes  == 2        \* heap allocations the program may make in one run

Vars      == 1..NumVars
Values    == 0..MaxVal
Resources == 1..MaxRes

(* The address of the by-value parameter `other` of operator=.             *)
Tmp == NumVars + 1

(* ---- size_t and the alternative registry ---- *)

(* std::size_t, narrowed from 64 to 16 bits.                               *)
SizeModulus == 2 ^ 16

invalid_value == (0 - 1) % SizeModulus

(* The declared alternative list variant<Integer, Text, Wrapper>:          *)
(* Integer is a built-in type, Text is a string with an in-place buffer    *)
(* that its own representation points into, Wrapper is                     *)
(* recursive_wrapper<Payload>, a box owning one heap allocation.           *)
Types == <<"Integer", "Text", "Wrapper">>

(* A type that is not in the declared list.                                *)
Other == "Other"

NoType == "none"

Declared == {Types[i] : i \in 1..Len(Types)}

AllTypes == Declared \cup {Other}

(* type_traits with the recursion into the tail dropped: every type gets   *)
(* sizeof...(Types) of the first specialisation.                           *)
type_traits_id_first(T, list) ==
    IF list = <<>> THEN invalid_value ELSE Len(Tail(list))

RECURSIVE type_traits_id(_, _)
type_traits_id(T, list) ==
    IF list = <<>> THEN invalid_value
    ELSE IF T = Head(list) THEN Len(Tail(list))
    ELSE type_traits_id(T, Tail(list))

RECURSIVE is_valid_type(_, _)
is_valid_type(T, list) ==
    IF list = <<>> THEN FALSE
    ELSE T = Head(list) \/ is_valid_type(T, Tail(list))

(* ---- the alternatives' own special member functions ---- *)

(* Types whose bytes may be moved to another address ("relocatable types   *)
(* e.g built-in types"): everything but the string with the in-place       *)
(* buffer.                                                                 *)
Relocatable(T) == T # "Text"

(* Types that own a heap allocation.                                       *)
Owns(T) == T = "Wrapper"

(* Types whose constructor can fail (it allocates, or it copies a          *)
(* string).                                                                *)
CanThrow(T) == T \in {"Text", "Wrapper"}

NoRes == 0

(* Storage that holds no object.                                           *)
Uninit == [type |-> NoType, val |-> 0, live |-> FALSE, home |-> 0, res |-> NoRes]

(* The object is within its lifetime and its bytes are where it was        *)
(* constructed (or it does not care).                                      *)
Sound(d, at) == d.live /\ (Relocatable(d.type) \/ d.home = at)

(* The object's value can be read: a moved-from box has no payload.        *)
Readable(d, at) == Sound(d, at) /\ (Owns(d.type) => d.res # NoRes)

(* new (at) T(v), with allocation r.                                       *)
T_construct(T, v, at, r) ==
    [type |-> T, val |-> v, live |-> TRUE, home |-> at,
     res |-> IF Owns(T) THEN r ELSE NoRes]

(* A move constructor that ends the lifetime of its source.                *)
T_moved_from_destroyed(d) ==
    [d EXCEPT !.res = NoRes, !.live = FALSE]

(* The moved-from state T's move constructor leaves its source in.         *)
T_moved_from(d) ==
    [d EXCEPT !.res = NoRes,
              !.val = IF d.type \in {"Text", "Wrapper"} THEN 0 ELSE @]

(* ~T()                                                                    *)
T_destroy(d) == [d EXCEPT !.live = FALSE]

(* ---- variant_helper<Types...> ---- *)

(* The chain of tests with the id compared to the length of the whole      *)
(* list instead of sizeof...(Types), the length of its tail.               *)
RECURSIVE variant_helper_match_off(_, _)
variant_helper_match_off(id, list) ==
    IF list = <<>> THEN NoType
    ELSE IF id = Len(list) THEN Head(list)
    ELSE variant_helper_match_off(id, Tail(list))

(* The alternative the chain of tests id == sizeof...(Types) stops at, or  *)
(* NoType when it reaches variant_helper<>.                                *)
RECURSIVE variant_helper_match(_, _)
variant_helper_match(id, list) ==
    IF list = <<>> THEN NoType
    ELSE IF id = Len(Tail(list)) THEN Head(list)
    ELSE variant_helper_match(id, Tail(list))

(* destroy(id, data): the storage afterwards.                              *)
variant_helper_destroy(id, d) ==
    IF variant_helper_match(id, Types) = NoType THEN d ELSE T_destroy(d)

(* copy that copies the box's pointer instead of its payload.              *)
variant_helper_copy_shallow(old_id, old, at, r) ==
    IF variant_helper_match(old_id, Types) = NoType THEN Uninit
    ELSE T_construct(old.type, old.val, at, old.res)

(* copy(old_id, old_value, new_value): the new storage at address `at`;   *)
(* r is the allocation the copy makes.                                     *)
variant_helper_copy(old_id, old, at, r) ==
    LET T == variant_helper_match(old_id, Types) IN
    IF T = NoType THEN Uninit ELSE T_construct(T, old.val, at, r)

(* move by std::memcpy(new_value, old_value, sizeof(T)): the bytes are     *)
(* copied and the source is left as it was.                                *)
variant_helper_move_memcpy(old_id, old, at) ==
    IF variant_helper_match(old_id, Types) = NoType THEN <<Uninit, old>>
    ELSE <<old, old>>

(* move(old_id, old_value, new_value): <<new storage, old storage>>.       *)
variant_helper_move(old_id, old, at) ==
    LET T == variant_helper_match(old_id, Types) IN
    IF T = NoType THEN <<Uninit, old>>
    ELSE <<T_construct(T, old.val, at, old.res), T_moved_from(old)>>

(* ---- state ---- *)
VARIABLES
    exists,      \* exists[c]: variable c is constructed and not destroyed
    type_index,  \* type_index[c]
    data,        \* data[c]: the object whose bytes the storage holds
    released,    \* released[r]: how often allocation r was freed (2 = more)
    nextRes,     \* the next allocation to hand out
    terminated,  \* std::terminate was called, or behaviour became undefined
    last         \* the last call: what it was, how it ended, what it did

vars == <<exists, type_index, data, released, nextRes, terminated, last>>

NoCall == [op |-> "none", c |-> 0, d |-> 0, T |-> NoType, v |-> 0,
           out |-> "ok", ev |-> <<>>, ret |-> <<>>]

Call(op, c, d, T, v, out, ev, ret) ==
    [op |-> op, c |-> c, d |-> d, T |-> T, v |-> v, out |-> out,
     ev |-> ev, ret |-> ret]

(* Events of a call: a constructor or a destructor of an alternative ran   *)
(* on the storage at `at`; live says whether the object was within its     *)
(* lifetime just before; res is the allocation the object owns.            *)
Constructed(d, at) ==
    [e |-> "construct", T |-> d.type, at |-> at, live |-> FALSE, res |-> d.res]

Destroyed(d, at) ==
    [e |-> "destroy", T |-> d.type, at |-> at, live |-> d.live, res |-> d.res]

(* The events of helper_type::destroy(id, &data).                          *)
DestroyEvents(id, d, at) ==
    IF variant_helper_match(id, Types) = NoType THEN <<>> ELSE <<Destroyed(d, at)>>

(* The allocation count after the destructor of d ran.                     *)
Release(rel, id, d) ==
    IF variant_helper_match(id, Types) # NoType /\ d.res # NoRes
    THEN [rel EXCEPT ![d.res] = IF @ = 0 THEN 1 ELSE 2]
    ELSE rel

(* Running the destructor of d at `at` has undefined behaviour: d is not   *)
(* within its lifetime, or its bytes are not where it was constructed.     *)
DestroyUB(id, d, at) ==
    variant_helper_match(id, Types) # NoType /\ ~Sound(d, at)

(* The program stops.  out = "terminate": std::terminate was called.       *)
(* out = "undefined": the call had undefined behaviour, after which        *)
(* nothing is known about the program.  No variant variable is left.       *)
Stop(call) ==
    /\ terminated' = TRUE
    /\ last' = call
    /\ exists' = [c \in Vars |-> FALSE]
    /\ type_index' = [c \in Vars |-> invalid_value]
    /\ data' = [c \in Vars |-> Uninit]
    /\ UNCHANGED <<released, nextRes>>

Init ==
    /\ exists = [c \in Vars |-> FALSE]
    /\ type_index = [c \in Vars |-> invalid_value]
    /\ data = [c \in Vars |-> Uninit]
    /\ released = [r \in Resources |-> 0]
    /\ nextRes = 1
    /\ terminated = FALSE
    /\ last = NoCall

(* ---- observers ---- *)
is(c, T) == type_index[c] = type_traits_id(T, Types)

valid(c) == type_index[c] # invalid_value

get_type_index(c) == type_index[c]

(* ---- constructors and destructor ---- *)

(* variant()                                                               *)
DefaultCtor(c) ==
    /\ ~terminated /\ ~exists[c]
    /\ exists' = [exists EXCEPT ![c] = TRUE]
    /\ type_index' = [type_index EXCEPT ![c] = invalid_value]
    /\ data' = [data EXCEPT ![c] = Uninit]
    /\ last' = Call("default", c, 0, NoType, 0, "ok", <<>>, <<>>)
    /\ UNCHANGED <<released, nextRes, terminated>>

(* variant(T const&) and variant(T&&), both noexcept: a throwing           *)
(* constructor of T ends in std::terminate.                                *)
ValueCtor(c, T, v, ok) ==
    /\ ~terminated /\ ~exists[c]
    /\ is_valid_type(T, Types)
    /\ IF ok
       THEN /\ Owns(T) => nextRes <= MaxRes
            /\ exists' = [exists EXCEPT ![c] = TRUE]
            /\ type_index' = [type_index EXCEPT ![c] = type_traits_id(T, Types)]
            /\ data' = [data EXCEPT ![c] = T_construct(T, v, c, nextRes)]
            /\ nextRes' = IF Owns(T) THEN nextRes + 1 ELSE nextRes
            /\ last' = Call("value", c, 0, T, v, "ok",
                            <<Constructed(T_construct(T, v, c, nextRes), c)>>, <<>>)
            /\ UNCHANGED <<released, terminated>>
       ELSE /\ CanThrow(T)
            /\ Stop(Call("value", c, 0, T, v, "terminate", <<>>, <<>>))

(* ~variant()                                                              *)
Dtor(c) ==
    /\ ~terminated /\ exists[c]
    /\ LET ev == DestroyEvents(type_index[c], data[c], c) IN
       IF DestroyUB(type_index[c], data[c], c)
       THEN Stop(Call("dtor", c, 0, NoType, 0, "undefined", ev, <<>>))
       ELSE /\ exists' = [exists EXCEPT ![c] = FALSE]
            /\ released' = Release(released, type_index[c], data[c])
            /\ type_index' = [type_index EXCEPT ![c] = invalid_value]
            /\ data' = [data EXCEPT ![c] = Uninit]
            /\ last' = Call("dtor", c, 0, NoType, 0, "ok", ev, <<>>)
            /\ UNCHANGED <<nextRes, terminated>>

(* variant(variant const& old): the discriminant is copied, then the        *)
(* helper copy-constructs the alternative; if that throws the new variant  *)
(* never comes to exist.                                                   *)
CopyCtor(c, old, ok) ==
    /\ ~terminated /\ ~exists[c] /\ exists[old]
    /\ LET id == type_index[old]
           T == variant_helper_match(id, Types)
       IN
       IF T # NoType /\ ~Readable(data[old], old)
       THEN ok /\ Stop(Call("copy", c, old, T, 0, "undefined", <<>>, <<>>))
       ELSE IF ok
       THEN /\ Owns(T) => nextRes <= MaxRes
            /\ exists' = [exists EXCEPT ![c] = TRUE]
            /\ type_index' = [type_index EXCEPT ![c] = id]
            /\ data' = [data EXCEPT ![c] = variant_helper_copy(id, data[old], c, nextRes)]
            /\ nextRes' = IF Owns(T) THEN nextRes + 1 ELSE nextRes
            /\ last' = Call("copy", c, old, T, 0, "ok",
                            IF T = NoType THEN <<>>
                            ELSE <<Constructed(variant_helper_copy(id, data[old], c, nextRes), c)>>,
                            <<>>)
            /\ UNCHANGED <<released, terminated>>
       ELSE /\ CanThrow(T)
            /\ last' = Call("copy", c, old, T, 0, "throw_ctor", <<>>, <<>>)
            /\ UNCHANGED <<exists, type_index, data, released, nextRes, terminated>>

(* variant(variant&& old) noexcept: the discriminant is copied and the     *)
(* helper move-constructs the alternative; old keeps its discriminant.     *)
MoveCtor(c, old) ==
    /\ ~terminated /\ ~exists[c] /\ exists[old]
    /\ LET id == type_index[old]
           T == variant_helper_match(id, Types)
           mv == variant_helper_move(id, data[old], c)
       IN
       IF T # NoType /\ ~Sound(data[old], old)
       THEN Stop(Call("move", c, old, T, 0, "undefined", <<>>, <<>>))
       ELSE /\ exists' = [exists EXCEPT ![c] = TRUE]
            /\ type_index' = [type_index EXCEPT ![c] = id]
            /\ data' = [data EXCEPT ![c] = mv[1], ![old] = mv[2]]
            /\ last' = Call("move", c, old, T, 0, "ok",
                            IF T = NoType THEN <<>> ELSE <<Constructed(mv[1], c)>>, <<>>)
            /\ UNCHANGED <<released, nextRes, terminated>>

(* swap(first, second): std::swap of the discriminants and of the raw      *)
(* storage bytes.  No constructor or destructor of an alternative runs.    *)
Swap(c1, c2) ==
    /\ ~terminated /\ exists[c1] /\ exists[c2]
    /\ type_index' = [type_index EXCEPT ![c1] = type_index[c2], ![c2] = type_index[c1]]
    /\ data' = [data EXCEPT ![c1] = data[c2], ![c2] = data[c1]]
    /\ last' = Call("swap", c1, c2, NoType, 0, "ok", <<>>, <<>>)
    /\ UNCHANGED <<exists, released, nextRes, terminated>>

(* operator=(variant other): `other` is copy-constructed from o at the     *)
(* call, swapped with *this, and destroyed when the call returns.          *)
Assign(c, o, ok) ==
    /\ ~terminated /\ exists[c] /\ exists[o]
    /\ LET id == type_index[o]
           T == variant_helper_match(id, Types)
           evc == IF T = NoType THEN <<>>
                  ELSE <<Constructed(variant_helper_copy(id, data[o], Tmp, nextRes), Tmp)>>
           evd == DestroyEvents(type_index[c], data[c], Tmp)
       IN
       IF T # NoType /\ ~Readable(data[o], o)
       THEN ok /\ Stop(Call("assign", c, o, T, 0, "undefined", <<>>, <<>>))
       ELSE IF ~ok
       THEN /\ CanThrow(T)
            /\ last' = Call("assign", c, o, T, 0, "throw_ctor", <<>>, <<>>)
            /\ UNCHANGED <<exists, type_index, data, released, nextRes, terminated>>
       ELSE IF DestroyUB(type_index[c], data[c], Tmp)
       THEN /\ Owns(T) => nextRes <= MaxRes
            /\ Stop(Call("assign", c, o, T, 0, "undefined", evc \o evd, <<>>))
       ELSE /\ Owns(T) => nextRes <= MaxRes
            /\ type_index' = [type_index EXCEPT ![c] = id]
            /\ data' = [data EXCEPT ![c] = variant_helper_copy(id, data[o], Tmp, nextRes)]
            /\ nextRes' = IF Owns(T) THEN nextRes + 1 ELSE nextRes
            /\ released' = Release(released, type_index[c], data[c])
            /\ last' = Call("assign", c, o, T, 0, "ok", evc \o evd, <<>>)
            /\ UNCHANGED <<exists, terminated>>

(* set<T>(args...): destroy the current alternative, construct the new T   *)
(* in place, then store the new discriminant.  When T's constructor        *)
(* throws, the last assignment is not reached.                             *)
Set(c, T, v, ok) ==
    /\ ~terminated /\ exists[c]
    /\ LET id == type_index[c]
           evd == DestroyEvents(id, data[c], c)
       IN
       IF DestroyUB(id, data[c], c)
       THEN ok /\ Stop(Call("set", c, 0, T, v, "undefined", evd, <<>>))
       ELSE IF ok
       THEN /\ Owns(T) => nextRes <= MaxRes
            /\ data' = [data EXCEPT ![c] = T_construct(T, v, c, nextRes)]
            /\ type_index' = [type_index EXCEPT ![c] = type_traits_id(T, Types)]
            /\ nextRes' = IF Owns(T) THEN nextRes + 1 ELSE nextRes
            /\ released' = Release(released, id, data[c])
            /\ last' = Call("set", c, 0, T, v, "ok", evd \o <<Constructed(T_construct(T, v, c, nextRes), c)>>, <<>>)
            /\ UNCHANGED <<exists, terminated>>
       ELSE /\ CanThrow(T)
            /\ data' = [data EXCEPT ![c] = variant_helper_destroy(id, data[c])]
            /\ released' = Release(released, id, data[c])
            /\ last' = Call("set", c, 0, T, v, "throw_ctor", evd, <<>>)
            /\ UNCHANGED <<exists, type_index, nextRes, terminated>>

(* ---- typed access ---- *)

(* get<T>(): the storage viewed as T when the discriminant is id(T), else  *)
(* std::runtime_error("in get()").                                         *)
variant_get(c, T) ==
    IF type_index[c] = type_traits_id(T, Types)
    THEN [out |-> "ok", ret |-> <<data[c].val>>]
    ELSE [out |-> "throw_get", ret |-> <<>>]

(* Reading or writing data[c] as a T has undefined behaviour.              *)
AccessUB(c, T) == ~(Readable(data[c], c) /\ data[c].type = T)

(* A caller reads the T object through get<T>().                           *)
Get(c, T) ==
    /\ ~terminated /\ exists[c]
    /\ LET g == variant_get(c, T) IN
       IF g.out = "ok" /\ ~(Sound(data[c], c) /\ data[c].type = T)
       THEN Stop(Call("get", c, 0, T, 0, "undefined", <<>>, <<>>))
       ELSE /\ last' = Call("get", c, 0, T, 0, g.out, <<>>, g.ret)
            /\ UNCHANGED <<exists, type_index, data, released, nextRes, terminated>>

(* A caller assigns v to the payload through the reference the non-const   *)
(* get<T>() returns.                                                       *)
WriteThrough(c, T, v) ==
    /\ ~terminated /\ exists[c]
    /\ is_valid_type(T, Types)
    /\ LET g == variant_get(c, T) IN
       IF g.out = "ok" /\ AccessUB(c, T)
       THEN Stop(Call("write", c, 0, T, v, "undefined", <<>>, <<>>))
       ELSE /\ data' = IF g.out = "ok" THEN [data EXCEPT ![c].val = v] ELSE data
            /\ last' = Call("write", c, 0, T, v, g.out, <<>>, <<>>)
            /\ UNCHANGED <<exists, type_index, released, nextRes, terminated>>

(* ---- single dispatch ---- *)

(* unwrapper<T>: the static type the visitor is called with.               *)
unwrapper(T) == IF T = "Wrapper" THEN "Payload" ELSE T

(* The dispatcher with the discriminant compared to the length of the      *)
(* whole list instead of sizeof...(Types).                                 *)
RECURSIVE dispatcher_apply_off(_, _)
dispatcher_apply_off(c, list) ==
    IF list = <<>>
    THEN [out |-> "throw_dispatch", ret |-> <<>>]
    ELSE IF get_type_index(c) = Len(list)
    THEN LET g == variant_get(c, Head(list)) IN
         IF g.out = "ok"
         THEN [out |-> "ok", ret |-> <<[T |-> unwrapper(Head(list)), val |-> g.ret[1]]>>]
         ELSE g
    ELSE dispatcher_apply_off(c, Tail(list))

(* dispatcher<F, V, Types...>::apply(v, f): the calls of f it makes        *)
(* (their results are what apply returns), or the error it throws.         *)
RECURSIVE dispatcher_apply(_, _)
dispatcher_apply(c, list) ==
    IF list = <<>>
    THEN [out |-> "throw_dispatch", ret |-> <<>>]
    ELSE IF get_type_index(c) = Len(Tail(list))
    THEN LET g == variant_get(c, Head(list)) IN
         IF g.out = "ok"
         THEN [out |-> "ok", ret |-> <<[T |-> unwrapper(Head(list)), val |-> g.ret[1]]>>]
         ELSE g
    ELSE dispatcher_apply(c, Tail(list))

(* apply_visitor(f, v) = V::visit(v, f)                                    *)
Visit(c) ==
    /\ ~terminated /\ exists[c]
    /\ LET r == dispatcher_apply(c, Types) IN
       IF r.out = "ok" /\ ~Readable(data[c], c)
       THEN Stop(Call("visit", c, 0, NoType, 0, "undefined", <<>>, <<>>))
       ELSE /\ last' = Call("visit", c, 0, NoType, 0, r.out, <<>>, r.ret)
            /\ UNCHANGED <<exists, type_index, data, released, nextRes, terminated>>

(* operator<<(out, v): apply_visitor with detail::printer, which writes    *)
(* the operand the dispatcher hands it.                                    *)
StreamOut(c) ==
    /\ ~terminated /\ exists[c]
    /\ LET r == dispatcher_apply(c, Types) IN
       IF r.out = "ok" /\ ~Readable(data[c], c)
       THEN Stop(Call("format", c, 0, NoType, 0, "undefined", <<>>, <<>>))
       ELSE /\ last' = Call("format", c, 0, NoType, 0, r.out, <<>>, r.ret)
            /\ UNCHANGED <<exists, type_index, data, released, nextRes, terminated>>

(* ---- binary dispatch ---- *)

(* One call f(x, y) of a binary visitor: the static type and the value of  *)
(* each argument.                                                          *)
BinaryCall(T0, g0, T1, g1) ==
    IF g0.out # "ok" THEN g0
    ELSE IF g1.out # "ok" THEN g1
    ELSE [out |-> "ok",
          ret |-> << <<[T |-> T0, val |-> g0.ret[1]], [T |-> T1, val |-> g1.ret[1]]>> >>]

(* binary_dispatcher_rhs<F, V, T0, T1, Types...>::apply(lhs, rhs, f): lhs  *)
(* holds T0; rhs is matched against the alternatives declared after T0,    *)
(* and both arguments go through the unwrapper.                            *)
RECURSIVE binary_dispatcher_rhs_apply(_, _, _, _)
binary_dispatcher_rhs_apply(lhs, rhs, T0, list) ==
    IF list = <<>>
    THEN [out |-> "throw_dispatch", ret |-> <<>>]
    ELSE IF get_type_index(rhs) = Len(Tail(list))
    THEN BinaryCall(unwrapper(T0), variant_get(lhs, T0),
                    unwrapper(Head(list)), variant_get(rhs, Head(list)))
    ELSE binary_dispatcher_rhs_apply(lhs, rhs, T0, Tail(list))

(* The lhs dispatcher handing the two values to f in the other order.      *)
RECURSIVE binary_dispatcher_lhs_apply_swapped(_, _, _, _)
binary_dispatcher_lhs_apply_swapped(lhs, rhs, T0, list) ==
    IF list = <<>>
    THEN [out |-> "throw_dispatch", ret |-> <<>>]
    ELSE IF get_type_index(lhs) = Len(Tail(list))
    THEN BinaryCall(T0, variant_get(rhs, T0),
                    Head(list), variant_get(lhs, Head(list)))
    ELSE binary_dispatcher_lhs_apply_swapped(lhs, rhs, T0, Tail(list))

(* binary_dispatcher_lhs<F, V, T0, T1, Types...>::apply(lhs, rhs, f): rhs  *)
(* holds T0; lhs is matched against the alternatives declared after T0.    *)
(* The arguments are the references get returns, not unwrapped.            *)
RECURSIVE binary_dispatcher_lhs_apply(_, _, _, _)
binary_dispatcher_lhs_apply(lhs, rhs, T0, list) ==
    IF list = <<>>
    THEN [out |-> "throw_dispatch", ret |-> <<>>]
    ELSE IF get_type_index(lhs) = Len(Tail(list))
    THEN BinaryCall(Head(list), variant_get(lhs, Head(list)),
                    T0, variant_get(rhs, T0))
    ELSE binary_dispatcher_lhs_apply(lhs, rhs, T0, Tail(list))

(* binary_dispatcher<F, V, Types...>::apply(v0, v1, f)                     *)
RECURSIVE binary_dispatcher_apply(_, _, _)
binary_dispatcher_apply(v0, v1, list) ==
    IF list = <<>>
    THEN [out |-> "throw_dispatch", ret |-> <<>>]
    ELSE IF get_type_index(v0) = Len(Tail(list))
    THEN IF get_type_index(v0) = get_type_index(v1)
         THEN BinaryCall(Head(list), variant_get(v0, Head(list)),
                         Head(list), variant_get(v1, Head(list)))
         ELSE binary_dispatcher_rhs_apply(v0, v1, Head(list), Tail(list))
    ELSE IF get_type_index(v1) = Len(Tail(list))
    THEN binary_dispatcher_lhs_apply(v0, v1, Head(list), Tail(list))
    ELSE binary_dispatcher_apply(v0, v1, Tail(list))

(* Handing the object of c to a visitor as static type T has undefined     *)
(* behaviour: the storage holds no usable object of the alternative the    *)
(* discriminant names, or the unwrapper reads a box that has no payload.   *)
ArgUB(c, T) ==
    \/ ~Sound(data[c], c)
    \/ data[c].type # variant_helper_match(type_index[c], Types)
    \/ (T # data[c].type /\ ~Readable(data[c], c))

(* apply_visitor(f, v0, v1) = V::binary_visit(v0, v1, f)                   *)
BinaryVisit(v0, v1) ==
    /\ ~terminated /\ exists[v0] /\ exists[v1]
    /\ LET r == binary_dispatcher_apply(v0, v1, Types) IN
       IF r.out = "ok" /\ (ArgUB(v0, r.ret[1][1].T) \/ ArgUB(v1, r.ret[1][2].T))
       THEN Stop(Call("binary_visit", v0, v1, NoType, 0, "undefined", <<>>, <<>>))
       ELSE /\ last' = Call("binary_visit", v0, v1, NoType, 0, r.out, <<>>, r.ret)
            /\ UNCHANGED <<exists, type_index, data, released, nextRes, terminated>>

(* ---- comparison ---- *)

(* equal_comp and less_comp: T's own == and <.                             *)
equal_comp(lhs, rhs) == lhs = rhs

less_comp(lhs, rhs) == lhs < rhs

(* comparer<Variant, Comp>::operator()(T const& rhs_content): T is the     *)
(* static type of the argument the dispatcher calls it with; the left      *)
(* side is fetched with lhs_.get<T>().                                     *)
comparer(lhs, Comp, rhs_content) ==
    LET g == variant_get(lhs, rhs_content.T) IN
    IF g.out # "ok" THEN g
    ELSE [out |-> "ok",
          ret |-> <<IF Comp = "equal_comp" THEN equal_comp(g.ret[1], rhs_content.val)
                    ELSE less_comp(g.ret[1], rhs_content.val)>>]

(* visit(rhs, comparer(lhs))                                               *)
visit_comparer(lhs, rhs, Comp) ==
    LET r == dispatcher_apply(rhs, Types) IN
    IF r.out # "ok" THEN r ELSE comparer(lhs, Comp, r.ret[1])

(* variant::operator==                                                     *)
variant_equal(lhs, rhs) ==
    IF get_type_index(lhs) # get_type_index(rhs)
    THEN [out |-> "ok", ret |-> <<FALSE>>]
    ELSE visit_comparer(lhs, rhs, "equal_comp")

(* operator< comparing the discriminants the other way round.              *)
variant_less_reversed(lhs, rhs) ==
    IF get_type_index(lhs) # get_type_index(rhs)
    THEN [out |-> "ok", ret |-> <<get_type_index(lhs) > get_type_index(rhs)>>]
    ELSE visit_comparer(lhs, rhs, "less_comp")

(* variant::operator<                                                      *)
variant_less(lhs, rhs) ==
    IF get_type_index(lhs) # get_type_index(rhs)
    THEN [out |-> "ok", ret |-> <<get_type_index(lhs) < get_type_index(rhs)>>]
    ELSE visit_comparer(lhs, rhs, "less_comp")

(* A comparison of lhs and rhs reads an object that cannot be read: the    *)
(* dispatcher reads the right side, the comparer the left side when its    *)
(* get succeeds.                                                           *)
CompareUB(lhs, rhs) ==
    /\ get_type_index(lhs) = get_type_index(rhs)
    /\ LET r == dispatcher_apply(rhs, Types) IN
       /\ r.out = "ok"
       /\ \/ ArgUB(rhs, r.ret[1].T)
          \/ variant_get(lhs, r.ret[1].T).out = "ok" /\ ArgUB(lhs, r.ret[1].T)

(* lhs == rhs                                                              *)
Equal(lhs, rhs) ==
    /\ ~terminated /\ exists[lhs] /\ exists[rhs]
    /\ IF CompareUB(lhs, rhs)
       THEN Stop(Call("equal", lhs, rhs, NoType, 0, "undefined", <<>>, <<>>))
       ELSE /\ last' = Call("equal", lhs, rhs, NoType, 0,
                            variant_equal(lhs, rhs).out, <<>>, variant_equal(lhs, rhs).ret)
            /\ UNCHANGED <<exists, type_index, data, released, nextRes, terminated>>

(* lhs < rhs                                                               *)
Less(lhs, rhs) ==
    /\ ~terminated /\ exists[lhs] /\ exists[rhs]
    /\ IF CompareUB(lhs, rhs)
       THEN Stop(Call("less", lhs, rhs, NoType, 0, "undefined", <<>>, <<>>))
       ELSE /\ last' = Call("less", lhs, rhs, NoType, 0,
                            variant_less(lhs, rhs).out, <<>>, variant_less(lhs, rhs).ret)
            /\ UNCHANGED <<exists, type_index, data, released, nextRes, terminated>>

(* ======================================================================= *)
(* Properties                                                              *)
(* ======================================================================= *)

(* The alternative the discriminant of c names, NoType if none.            *)
Names(c) == variant_helper_match(type_index[c], Types)

(* The storage of c holds a live object: one that was constructed, is not  *)
(* destroyed, and whose bytes are where a T can be used.                   *)
HoldsLive(c) == Sound(data[c], c)

(* c holds alternative T with a payload that can be read.                  *)
Holds(c, T) ==
    exists[c] /\ Names(c) = T /\ data[c].type = T /\ Readable(data[c], c)

(* C1: a variant constructed from a value v of a declared alternative T is *)
(* valid, is<T>() is true, get<T>() returns v, is<U>() is false for every  *)
(* other declared U; the ids of the declared alternatives are pairwise     *)
(* distinct and none is the empty sentinel.                                *)
C1_ConstructFromValue ==
    /\ \A T, U \in Declared :
          /\ type_traits_id(T, Types) # invalid_value
          /\ T # U => type_traits_id(T, Types) # type_traits_id(U, Types)
    /\ (last.op = "value" /\ last.out = "ok") =>
          /\ exists[last.c] /\ valid(last.c) /\ is(last.c, last.T)
          /\ HoldsLive(last.c) /\ data[last.c].type = last.T
          /\ variant_get(last.c, last.T) = [out |-> "ok", ret |-> <<last.v>>]
          /\ \A U \in Declared \ {last.T} : ~is(last.c, U)

C1_Witness ==
    /\ last.op = "value" /\ last.out = "ok" /\ last.T = "Text" /\ last.v = 1
    /\ is(last.c, "Text")

(* C2: (invariant 1) a variant's discriminant is the empty sentinel if and *)
(* only if its storage holds no live object.                               *)
C2_EmptyIffNoLiveObject ==
    \A c \in Vars : exists[c] => ((type_index[c] = invalid_value) <=> ~HoldsLive(c))

(* C3: (invariant 2) if the discriminant names alternative T the storage   *)
(* holds a live T, also where set<T> was abandoned because the constructor *)
(* of the new T threw; the destructor never destroys an object that is     *)
(* already destroyed.                                                      *)
C3_DiscriminantNamesLiveObject ==
    /\ \A c \in Vars : (exists[c] /\ Names(c) # NoType) =>
          (data[c].live /\ data[c].type = Names(c))
    /\ last.op = "dtor" => \A i \in 1..Len(last.ev) : last.ev[i].live

(* c is empty, or holds the alternative its discriminant names.            *)
Consistent(c) ==
    exists[c] /\ (Names(c) = NoType \/ Holds(c, Names(c)))

(* The positions in the events ev of a call where a destructor, or a       *)
(* constructor, of an alternative ran.                                     *)
DestroyAt(ev) == {i \in DOMAIN ev : ev[i].e = "destroy"}

ConstructAt(ev) == {i \in DOMAIN ev : ev[i].e = "construct"}

(* C4: on every path that changes the active alternative, set<T> and       *)
(* assignment, the previous object is destroyed before the new object is   *)
(* constructed, and it was live when destroyed; after set<T> the           *)
(* discriminant is id(T).                                                  *)
C4_DestroyBeforeConstruct ==
    (last.op \in {"set", "assign"} /\ last.out = "ok") =>
       /\ \A i \in DestroyAt(last.ev), j \in ConstructAt(last.ev) : i < j
       /\ \A i \in DestroyAt(last.ev) : last.ev[i].live
       /\ last.op = "set" => type_index[last.c] = type_traits_id(last.T, Types)

(* C4, amended: a call of set<T> that returns or throws ran the destructor *)
(* of the stored alternative exactly once if the discriminant named one    *)
(* (never otherwise), before the constructor of T, and when it returns the *)
(* discriminant is id(T); a call of operator= that returns constructed the *)
(* copy first and ran the destructor of the previously stored alternative  *)
(* exactly once, after that; one that throws destroyed nothing.            *)
C4_DestroyOnceInOrder ==
    [][ (last'.op \in {"set", "assign"} /\ last'.out # "undefined") =>
          LET c == last'.c
              ev == last'.ev
          IN
          /\ Cardinality(DestroyAt(ev)) =
                (IF Names(c) # NoType /\ last'.out # "throw_ctor" THEN 1
                 ELSE IF Names(c) # NoType /\ last'.op = "set" THEN 1
                 ELSE 0)
          /\ Cardinality(ConstructAt(ev)) <= 1
          /\ last'.op = "set" =>
                /\ \A i \in DestroyAt(ev), j \in ConstructAt(ev) : i < j
                /\ \A i \in DestroyAt(ev) : ev[i].at = c /\ ev[i].T = Names(c)
                /\ last'.out = "ok" =>
                      /\ type_index'[c] = type_traits_id(last'.T, Types)
                      /\ ConstructAt(ev) # {}
                      /\ data'[c].live /\ data'[c].type = last'.T
          /\ last'.op = "assign" =>
                /\ \A i \in DestroyAt(ev), j \in ConstructAt(ev) : j < i
                /\ \A i \in DestroyAt(ev) : ev[i].T = Names(c)
    ]_vars

C4_Witness ==
    /\ last.op = "assign" /\ last.out = "ok"
    /\ DestroyAt(last.ev) # {} /\ ConstructAt(last.ev) # {}

(* C5: a = b leaves a untouched when copying b throws; otherwise it        *)
(* returns, a then holds the alternative b held with an equal payload, and *)
(* b is unchanged (also for a = a).  Stated for a and b that are empty or  *)
(* hold a readable alternative.                                            *)
C5_AssignIsSafe ==
    [][ (last'.op = "assign" /\ Consistent(last'.c) /\ Consistent(last'.d)) =>
          LET a == last'.c
              b == last'.d
          IN
          IF last'.out = "throw_ctor"
          THEN /\ type_index'[a] = type_index[a] /\ data'[a] = data[a]
               /\ DestroyAt(last'.ev) = {}
          ELSE /\ last'.out = "ok"
               /\ type_index'[a] = type_index[b]
               /\ Names(b) # NoType =>
                     /\ Sound(data'[a], a)
                     /\ data'[a].type = data[b].type /\ data'[a].val = data[b].val
               /\ a # b => (type_index'[b] = type_index[b] /\ data'[b] = data[b])
    ]_vars

(* C8: swap(a, b) of two variants that are empty or hold a readable        *)
(* alternative exchanges discriminants and stored objects, runs no         *)
(* constructor or destructor, and afterwards each side's discriminant      *)
(* names the live object its storage holds.                                *)
C8_SwapExchanges ==
    [][ (last'.op = "swap" /\ Consistent(last'.c) /\ Consistent(last'.d)) =>
          LET a == last'.c
              b == last'.d
          IN
          /\ last'.out = "ok" /\ last'.ev = <<>>
          /\ type_index'[a] = type_index[b] /\ type_index'[b] = type_index[a]
          /\ data'[a].type = data[b].type /\ data'[a].val = data[b].val
          /\ data'[b].type = data[a].type /\ data'[b].val = data[a].val
          /\ Names(b) # NoType => Sound(data'[a], a)
          /\ Names(a) # NoType => Sound(data'[b], b)
    ]_vars

(* C9: for every declared T, get<T>() returns the live payload exactly     *)
(* when is<T>() is true and raises the type-mismatch error in every other  *)
(* state.                                                                  *)
C9_GetReturnsLivePayload ==
    \A c \in Vars, T \in Declared : exists[c] =>
       IF is(c, T)
       THEN /\ variant_get(c, T) = [out |-> "ok", ret |-> <<data[c].val>>]
            /\ data[c].live /\ data[c].type = T
       ELSE variant_get(c, T) = [out |-> "throw_get", ret |-> <<>>]

(* C6: the copy c of a variant a that is empty or holds a readable         *)
(* alternative T holds T with an equal payload of its own (empty if a is   *)
(* empty), copying leaves a unchanged, and writing through c.get<T>(),     *)
(* c.set<U>() and destroying c leave every other variant unchanged.        *)
C6_CopyIsIndependent ==
    [][ /\ (last'.op = "copy" /\ Consistent(last'.d)) =>
             LET c == last'.c
                 a == last'.d
             IN
             /\ last'.out \in {"ok", "throw_ctor"}
             /\ type_index'[a] = type_index[a] /\ data'[a] = data[a] /\ exists'[a]
             /\ last'.out = "ok" =>
                   /\ exists'[c] /\ type_index'[c] = type_index[a]
                   /\ Names(a) = NoType => (type_index'[c] = invalid_value /\ ~data'[c].live)
                   /\ Names(a) # NoType =>
                         /\ data'[c].type = Names(a) /\ data'[c].val = data[a].val
                         /\ Readable(data'[c], c)
                         /\ data[a].res # NoRes => data'[c].res # data[a].res
        /\ (last'.op \in {"write", "set", "dtor"} /\ last'.out # "undefined") =>
             \A a \in Vars \ {last'.c} :
                 type_index'[a] = type_index[a] /\ data'[a] = data[a] /\ exists'[a] = exists[a]
    ]_vars

(* A variant was written through get<T>() while another variant holds the *)
(* same alternative with another payload.                                  *)
C6_Witness ==
    /\ last.op = "write" /\ last.out = "ok"
    /\ \E a \in Vars \ {last.c} :
          /\ Holds(a, "Wrapper") /\ Holds(last.c, "Wrapper")
          /\ data[a].val # data[last.c].val

(* C7: every allocation is owned by exactly one live object of an existing *)
(* variant and not freed, or owned by none and freed exactly once; so      *)
(* after a move construction and the destruction of both variants the      *)
(* payload's allocation is freed exactly once.  Destroying the moved-from  *)
(* and the moved-to variant has defined behaviour.                         *)
C7_MoveReleasesOnce ==
    /\ ~terminated =>
          \A r \in Resources :
             LET holders == {c \in Vars : exists[c] /\ data[c].live /\ data[c].res = r} IN
             IF r >= nextRes
             THEN released[r] = 0 /\ holders = {}
             ELSE \/ released[r] = 0 /\ Cardinality(holders) = 1
                  \/ released[r] = 1 /\ holders = {}
    /\ (last.op = "move" /\ last.T # NoType) =>
          /\ last.out = "ok"
          /\ type_index[last.c] = type_index[last.d]
          /\ ~DestroyUB(type_index[last.c], data[last.c], last.c)
          /\ ~DestroyUB(type_index[last.d], data[last.d], last.d)
    /\ last.op = "dtor" => last.out = "ok"

(* The moved-from box is destroyed last, after the variant it was moved    *)
(* to: nothing is left and the allocation was freed once.                  *)
C7_Witness ==
    /\ last.op = "dtor" /\ last.out = "ok"
    /\ Len(last.ev) = 1 /\ last.ev[1].T = "Wrapper" /\ last.ev[1].res = NoRes
    /\ \A c \in Vars : ~exists[c]
    /\ released[1] = 1

(* C10: apply_visitor on a variant holding a readable alternative T calls  *)
(* the visitor exactly once, with the payload (of the boxed type for the   *)
(* box), and returns its result; on a variant whose discriminant matches   *)
(* no alternative it calls nothing and throws the dispatch failure.  The   *)
(* variant is unchanged.                                                   *)
C10_SingleDispatch ==
    [][ last'.op = "visit" =>
          LET c == last'.c IN
          /\ \A T \in Declared : Holds(c, T) =>
                /\ last'.out = "ok"
                /\ last'.ret = <<[T |-> IF T = "Wrapper" THEN "Payload" ELSE T,
                                  val |-> data[c].val]>>
          /\ (exists[c] /\ Names(c) = NoType) =>
                (last'.out = "throw_dispatch" /\ last'.ret = <<>>)
          /\ last'.out # "undefined" =>
                (type_index' = type_index /\ data' = data /\ exists' = exists)
    ]_vars

C10_Witness ==
    /\ last.op = "visit" /\ last.out = "ok"
    /\ Holds(last.c, "Integer")
    /\ last.ret = <<[T |-> "Integer", val |-> 1]>>

(* C11: apply_visitor(f, A, B) on A holding X and B holding Y (readable)   *)
(* calls f exactly once, first argument A's payload as X (or as the type   *)
(* X boxes), second argument B's payload as Y, never swapped whichever is  *)
(* declared first, also when X = Y; when A or B is empty f is not called   *)
(* and the dispatch failure is thrown.                                     *)
C11_BinaryDispatch ==
    [][ last'.op = "binary_visit" =>
          LET A == last'.c
              B == last'.d
          IN
          /\ \A X, Y \in Declared : (Holds(A, X) /\ Holds(B, Y)) =>
                /\ last'.out = "ok"
                /\ Len(last'.ret) = 1
                /\ last'.ret[1][1].T \in {X, unwrapper(X)}
                /\ last'.ret[1][1].val = data[A].val
                /\ last'.ret[1][2].T \in {Y, unwrapper(Y)}
                /\ last'.ret[1][2].val = data[B].val
          /\ (exists[A] /\ exists[B] /\ (~valid(A) \/ ~valid(B))) =>
                (last'.out = "throw_dispatch" /\ last'.ret = <<>>)
    ]_vars

(* The left side holds the alternative declared later.                     *)
C11_Witness ==
    /\ last.op = "binary_visit" /\ last.out = "ok"
    /\ Holds(last.c, "Text") /\ Holds(last.d, "Integer")
    /\ last.ret = << <<[T |-> "Text", val |-> 1], [T |-> "Integer", val |-> 0]>> >>

(* The result of a comparison that returned b.                             *)
Returns(b) == [out |-> "ok", ret |-> <<b>>]

(* C12: == is reflexive and symmetric over all variants in scope, the      *)
(* empty ones included: a == a returns true, a == b returns what b == a    *)
(* returns, variants with different discriminants are never equal, and     *)
(* two variants holding the same alternative are equal exactly when their  *)
(* payloads are.                                                           *)
C12_EqualityReflexiveSymmetric ==
    \A a, b \in Vars : (exists[a] /\ exists[b]) =>
       /\ variant_equal(a, a) = Returns(TRUE)
       /\ variant_equal(a, b).out = "ok"
       /\ variant_equal(a, b) = variant_equal(b, a)
       /\ get_type_index(a) # get_type_index(b) => variant_equal(a, b) = Returns(FALSE)
       /\ \A T \in Declared : (Holds(a, T) /\ Holds(b, T)) =>
             variant_equal(a, b) = Returns(data[a].val = data[b].val)

(* a < b returned true.                                                    *)
Lt(a, b) == variant_less(a, b) = Returns(TRUE)

(* C13: < is a strict weak order over all variants in scope: it returns a  *)
(* result for every pair, is irreflexive, asymmetric and transitive, and   *)
(* incomparability is transitive; variants with different discriminants    *)
(* compare by discriminant only, variants with the same discriminant by    *)
(* the payload's own order.                                                *)
C13_StrictWeakOrder ==
    \A a, b, c \in Vars : (exists[a] /\ exists[b] /\ exists[c]) =>
       /\ variant_less(a, b).out = "ok"
       /\ ~Lt(a, a)
       /\ Lt(a, b) => ~Lt(b, a)
       /\ (Lt(a, b) /\ Lt(b, c)) => Lt(a, c)
       /\ (~Lt(a, b) /\ ~Lt(b, a) /\ ~Lt(b, c) /\ ~Lt(c, b)) => (~Lt(a, c) /\ ~Lt(c, a))
       /\ get_type_index(a) # get_type_index(b) =>
             variant_less(a, b) = Returns(get_type_index(a) < get_type_index(b))
       /\ \A T \in Declared : (Holds(a, T) /\ Holds(b, T)) =>
             variant_less(a, b) = Returns(data[a].val < data[b].val)

(* C14: a variant holding an alternative declared earlier is less than a   *)
(* variant holding one declared later; in particular, holding Integer is   *)
(* less than holding Text: a < b is true and b < a is false.               *)
C14_DeclaredOrder ==
    \A a, b \in Vars : \A i, j \in 1..Len(Types) :
       (i < j /\ Holds(a, Types[i]) /\ Holds(b, Types[j])) =>
          /\ variant_less(a, b) = Returns(TRUE)
          /\ variant_less(b, a) = Returns(FALSE)

(* C15: when the active alternative is the box, every path hands over the  *)
(* payload and completes: single dispatch and formatting, the three paths  *)
(* of binary dispatch, == and <; two variants holding boxes with equal     *)
(* payloads compare equal.                                                 *)
C15_BoxUnwrappedOnEveryPath ==
    /\ (last.op \in {"visit", "format"} /\ Holds(last.c, "Wrapper")) =>
          /\ last.out = "ok"
          /\ last.ret = <<[T |-> "Payload", val |-> data[last.c].val]>>
    /\ (last.op = "binary_visit" /\ valid(last.c) /\ valid(last.d)) =>
          /\ last.out = "ok"
          /\ Holds(last.c, "Wrapper") => last.ret[1][1].T = "Payload"
          /\ Holds(last.d, "Wrapper") => last.ret[1][2].T = "Payload"
    /\ \A a, b \in Vars : (Holds(a, "Wrapper") /\ Holds(b, "Wrapper")) =>
          /\ variant_equal(a, b) = Returns(data[a].val = data[b].val)
          /\ variant_less(a, b) = Returns(data[a].val < data[b].val)

(* C16: no call names a type outside the declared list, and no variant     *)
(* holds an object of such a type.                                         *)
C16_NonMemberRejected ==
    /\ last.T \notin AllTypes \ Declared
    /\ \A c \in Vars : data[c].type \notin AllTypes \ Declared

(* C17: move construction copies the discriminant and leaves the source    *)
(* as it was named: after moving from s holding T both have discriminant   *)
(* id(T), s is valid and holds a live moved-from T, one T was constructed; *)
(* moving from an empty variant gives an empty variant and constructs      *)
(* nothing.  Every destruction of a variant runs the destructor of the     *)
(* alternative it names exactly once, on a live object.                    *)
C17_MoveKeepsSource ==
    [][ /\ last'.op = "move" =>
             LET s == last'.d
                 d == last'.c
                 T == Names(s)
             IN
             /\ last'.out = "ok"
             /\ type_index'[d] = type_index[s] /\ type_index'[s] = type_index[s]
             /\ IF T # NoType
                THEN /\ type_index'[s] = type_traits_id(T, Types)
                     /\ type_index'[s] # invalid_value
                     /\ data'[s].live /\ data'[s].type = T /\ Sound(data'[s], s)
                     /\ data'[d].live /\ data'[d].type = T /\ data'[d].val = data[s].val
                     /\ Len(last'.ev) = 1 /\ last'.ev[1].e = "construct"
                     /\ last'.ev[1].T = T /\ last'.ev[1].at = d
                ELSE /\ type_index'[d] = invalid_value
                     /\ ~data'[d].live
                     /\ last'.ev = <<>>
        /\ last'.op = "dtor" =>
             LET c == last'.c IN
             /\ last'.out = "ok"
             /\ IF Names(c) = NoType THEN last'.ev = <<>>
                ELSE /\ Len(last'.ev) = 1 /\ last'.ev[1].e = "destroy"
                     /\ last'.ev[1].T = Names(c) /\ last'.ev[1].live
    ]_vars

(* The source of a moved box: still named Wrapper, live, without payload.  *)
C17_Witness ==
    /\ last.op = "move" /\ last.out = "ok" /\ last.T = "Wrapper"
    /\ exists[last.d] /\ valid(last.d) /\ is(last.d, "Wrapper")
    /\ data[last.d].live /\ data[last.d].res = NoRes
    /\ is(last.c, "Wrapper") /\ data[last.c].res # NoRes

(* C18: the empty sentinel is the largest value of the index type and      *)
(* above every id; for an empty e and a valid x, x < e returns true,       *)
(* e < x returns false and e == x returns false, decided on the            *)
(* discriminants alone, without error.                                     *)
C18_EmptyOrdersLast ==
    /\ invalid_value = SizeModulus - 1
    /\ \A T \in Declared : type_traits_id(T, Types) < invalid_value
    /\ \A e, x \in Vars : (exists[e] /\ exists[x] /\ ~valid(e) /\ valid(x)) =>
          /\ variant_less(x, e) = Returns(TRUE)
          /\ variant_less(e, x) = Returns(FALSE)
          /\ variant_equal(e, x) = Returns(FALSE)
          /\ variant_equal(x, e) = Returns(FALSE)
          /\ ~CompareUB(e, x) /\ ~CompareUB(x, e)
    /\ (last.op = "less" /\ valid(last.c) # valid(last.d)) =>
          last = Call("less", last.c, last.d, NoType, 0, "ok", <<>>, <<valid(last.c)>>)
    /\ (last.op = "equal" /\ valid(last.c) # valid(last.d)) =>
          last = Call("equal", last.c, last.d, NoType, 0, "ok", <<>>, <<FALSE>>)

(* x < e was evaluated for x holding Integer and e empty.                  *)
C18_Witness ==
    /\ last.op = "less" /\ last.out = "ok" /\ last.ret = <<TRUE>>
    /\ Holds(last.c, "Integer") /\ exists[last.d] /\ ~valid(last.d)

Next ==
    \/ \E c \in Vars : DefaultCtor(c)
    \/ \E c \in Vars, T \in AllTypes, v \in Values, ok \in BOOLEAN : ValueCtor(c, T, v, ok)
    \/ \E c \in Vars : Dtor(c)
    \/ \E c, old \in Vars, ok \in BOOLEAN : CopyCtor(c, old, ok)
    \/ \E c, old \in Vars : MoveCtor(c, old)
    \/ \E c1, c2 \in Vars : Swap(c1, c2)
    \/ \E c, o \in Vars, ok \in BOOLEAN : Assign(c, o, ok)
    \/ \E c \in Vars, T \in AllTypes, v \in Values, ok \in BOOLEAN : Set(c, T, v, ok)
    \/ \E c \in Vars, T \in AllTypes : Get(c, T)
    \/ \E c \in Vars, T \in AllTypes, v \in Values : WriteThrough(c, T, v)
    \/ \E c \in Vars : Visit(c)

Spec == Init /\ [][Next]_vars

(* The program that constructs, moves, reads, visits and destroys.         *)
NextLifetime ==
    \/ \E c \in Vars : DefaultCtor(c)
    \/ \E c \in Vars, T \in AllTypes, v \in Values, ok \in BOOLEAN : ValueCtor(c, T, v, ok)
    \/ \E c \in Vars : Dtor(c)
    \/ \E c, old \in Vars : MoveCtor(c, old)
    \/ \E c \in Vars, T \in AllTypes : Get(c, T)
    \/ \E c \in Vars : Visit(c)

SpecLifetime == Init /\ [][NextLifetime]_vars

(* The program that constructs, visits, compares, formats and destroys.    *)
NextCompare ==
    \/ \E c \in Vars : DefaultCtor(c)
    \/ \E c \in Vars, T \in AllTypes, v \in Values, ok \in BOOLEAN : ValueCtor(c, T, v, ok)
    \/ \E c \in Vars : Dtor(c)
    \/ \E c \in Vars : Visit(c)
    \/ \E c \in Vars : StreamOut(c)
    \/ \E v0, v1 \in Vars : BinaryVisit(v0, v1)
    \/ \E lhs, rhs \in Vars : Equal(lhs, rhs)
    \/ \E lhs, rhs \in Vars : Less(lhs, rhs)

SpecCompare == Init /\ [][NextCompare]_vars

(* The program that constructs, applies binary visitors and destroys.      *)
NextBinary ==
    \/ \E c \in Vars : DefaultCtor(c)
    \/ \E c \in Vars, T \in AllTypes, v \in Values, ok \in BOOLEAN : ValueCtor(c, T, v, ok)
    \/ \E c \in Vars : Dtor(c)
    \/ \E v0, v1 \in Vars : BinaryVisit(v0, v1)

SpecBinary == Init /\ [][NextBinary]_vars
====
